---------------------------- MODULE Spec2Model ----------------------------
(***************************************************************************)
(* Job orchestration engine of the EEMT web interface.                     *)
(*                                                                         *)
(*   web-interface/app.py                  JobManager (the job store over  *)
(*       SQLite), the HTTP endpoints submit / cancel / delete / download   *)
(*       and the supervision task execute_containerized_workflow           *)
(*   web-interface/containers/workflow_manager.py   WorkflowManager: the   *)
(*       execute_workflow generator with its three paths (Docker SDK,      *)
(*       subprocess "docker run", mock), the active-handle map, cleanup    *)
(*                                                                         *)
(* Scheduling.  The service is one asyncio event loop.  Code between two   *)
(* awaits that really suspend runs without interleaving of other           *)
(* coroutines of this process; the variable loop names the task that       *)
(* holds the event loop inside such a block.  An endpoint handler has no   *)
(* await and runs only when no task holds the loop.  Every store write     *)
(* (one committed UPDATE) is a step of its own.                            *)
(*                                                                         *)
(* Text.  A text value is a sequence of tokens.  A percentage is kept in   *)
(* tenths (the generators format with one decimal, "{:.1f}%"), so 72.5%    *)
(* is 725 and int(72.5) is 725 \div 10.                                    *)
(***************************************************************************)
EXTENDS Integers, Sequences, FiniteSets, TLC

(***************************************************************************)
(* Bounds of the model.                                                    *)
(***************************************************************************)
MaxLines == 2        \* raw output lines one execution unit prints
MaxTime == 1         \* ticks of the wall clock
MaxHalfDays == 3     \* half days of wall clock a retention run may see
MaxStarts == 3       \* worker processes one node starts
MaxRuns == 2         \* runs of the master script on one host

(***************************************************************************)
(* Program constants.                                                      *)
(***************************************************************************)
StartProgress == 5
DoneProgress == 100
EnvReadyPct == 30
InitStartedPct == 35
GrassPct == 40
DemPct == 45
SolarPct == 50
TaskSpanPct == 45
MonthlyPct == 95
FinalizingPct == 98
GenericEvery == 10
SolTasks == 365
MockSteps == 9
HoursPerDay == 24
UploadSizeMb == 1            \* the size of an uploaded DEM, in MB

OldIds == {"j0"}            \* a job an earlier run of the service left
NewIds == {"j1"}            \* the uuid4 identifiers this run generates
JobIds == OldIds \cup NewIds
None == "None"              \* Python None where the other values are strings
NULL == <<"NULL">>          \* SQL NULL in a TEXT column
NoTime == 0 - 1             \* SQL NULL in a TIMESTAMP column
NoProgress == 0 - 1         \* update_status(progress=None)
NoPct == 0 - 1              \* a PROGRESS payload without a '%' sign
NoCode == 0 - 1             \* the execution unit has not exited

PENDING == "pending"
RUNNING == "running"
COMPLETED == "completed"
FAILED == "failed"
Terminal == {COMPLETED, FAILED}

VARIABLES
    jobs,               \* the jobs table: job id -> row
    uploads,            \* UPLOADS_DIR: ids whose "<id>_<name>" file exists
    results,            \* RESULTS_DIR/<id>: [exists, files]
    zips,               \* RESULTS_DIR/<id>_results.zip exists
    temps,              \* temp_dir/<id> exists
    wm_active,          \* WorkflowManager.active_containers: id -> handle kind
    jm_active,          \* JobManager.active_containers (keys)
    docker_client,      \* WorkflowManager.docker_client: None, "subprocess", "sdk"
    unit,               \* the execution unit of each job
    task,               \* the supervision task of each job
    loop,               \* the task holding the event loop, or None
    now,                \* datetime.now()
    resp,               \* what this step did: an endpoint's response, or
                        \* the task's call of update_status
    cancelled,          \* history: ids whose cancel call returned success
    worker_processes,   \* DistributedWorkflowManager.worker_processes (pids)
    procs,              \* the worker processes this node started
    monitor,            \* the monitor thread of each worker process
    node                \* the node script: its main thread and its config

vars == <<jobs, uploads, results, zips, temps, wm_active, jm_active,
          docker_client, unit, task, loop, now, resp, cancelled,
          worker_processes, procs, monitor, node>>

artifacts == <<uploads, results, zips, temps>>

cluster == <<worker_processes, procs, monitor, node>>

(***************************************************************************)
(* Job store: JobManager over the jobs table.                              *)
(***************************************************************************)
\* INSERT INTO jobs ... VALUES (id, type, PENDING, dem, params, 0)
NewRow ==
    [status |-> PENDING, progress |-> 0, error_message |-> NULL,
     started_at |-> NoTime, completed_at |-> NoTime]

InsertRow(db, j) ==
    [k \in DOMAIN db \cup {j} |-> IF k = j THEN NewRow ELSE db[k]]

\* DELETE FROM jobs WHERE id = ?
DeleteRow(db, j) ==
    [k \in DOMAIN db \ {j} |-> db[k]]

\* JobManager.get_job: the row, or None
JobExists(db, j) == j \in DOMAIN db

StatusOf(db, j) == IF JobExists(db, j) THEN db[j].status ELSE None

\* update_status with the terminal branch forgetting the progress column
update_status_noprogress(db, t, j, status, progress, error) ==
    IF ~JobExists(db, j) THEN db
    ELSE LET r == db[j]
             p == IF progress # NoProgress THEN progress ELSE r.progress
         IN  [db EXCEPT ![j] =
                IF status = RUNNING
                THEN [r EXCEPT !.status = status, !.progress = p,
                               !.error_message = error,
                               !.started_at =
                                   IF r.started_at = NoTime THEN t
                                   ELSE r.started_at]
                ELSE [r EXCEPT !.status = status,
                               !.error_message = error,
                               !.completed_at = t]]

\* update_status whose RUNNING branch leaves error_message as it is
update_status_keepmsg(db, t, j, status, progress, error) ==
    IF ~JobExists(db, j) THEN db
    ELSE LET r == db[j]
             p == IF progress # NoProgress THEN progress ELSE r.progress
         IN  [db EXCEPT ![j] =
                IF status = RUNNING
                THEN [r EXCEPT !.status = status, !.progress = p,
                               !.started_at =
                                   IF r.started_at = NoTime THEN t
                                   ELSE r.started_at]
                ELSE IF status \in Terminal
                THEN [r EXCEPT !.status = status, !.progress = p,
                               !.error_message = error,
                               !.completed_at = t]
                ELSE [r EXCEPT !.status = status, !.progress = p,
                               !.error_message = error]]

\* JobManager.update_status: one UPDATE ... WHERE id = ?  (no row: no effect).
\* RUNNING sets started_at with COALESCE; COMPLETED and FAILED set
\* completed_at to the current time; every branch writes status and
\* error_message, and progress when one is given.
update_status(db, t, j, status, progress, error) ==
    IF ~JobExists(db, j) THEN db
    ELSE LET r == db[j]
             p == IF progress # NoProgress THEN progress ELSE r.progress
         IN  [db EXCEPT ![j] =
                IF status = RUNNING
                THEN [r EXCEPT !.status = status, !.progress = p,
                               !.error_message = error,
                               !.started_at =
                                   IF r.started_at = NoTime THEN t
                                   ELSE r.started_at]
                ELSE IF status \in Terminal
                THEN [r EXCEPT !.status = status, !.progress = p,
                               !.error_message = error,
                               !.completed_at = t]
                ELSE [r EXCEPT !.status = status, !.progress = p,
                               !.error_message = error]]


(***************************************************************************)
(* Progress protocol lines.  A line is its leading tag, the percentage of  *)
(* a "<float>%" payload in tenths (NoPct when the payload has no '%'),     *)
(* and the rest of the text as tokens.                                     *)
(***************************************************************************)
Line(tag, pct, text) == [tag |-> tag, pct |-> pct, text |-> text]
StatusLine(text) == Line("STATUS:", NoPct, text)
ProgressLine(p10) == Line("PROGRESS:", p10, <<>>)
CountLine(n) == Line("PROGRESS:", NoPct, <<"tasks completed">>)
\* the count in the log line "COMPLETED 45 jobs"
LoggedCount == 45
CompletedLine(text) == Line("COMPLETED:", NoPct, text)
ErrorLine(text) == Line("ERROR:", NoPct, text)
FailedLine(text) == Line("FAILED:", NoPct, text)

\* f"{x:.1f}" of x = num/den percent, in tenths: round half to even
Fmt1(num, den) ==
    LET n == 10 * num
        q == n \div den
        r == n % den
    IN  IF 2 * r < den THEN q
        ELSE IF 2 * r > den THEN q + 1
        ELSE IF q % 2 = 0 THEN q ELSE q + 1

\* int(float(text)) of a percentage in tenths
IntOf(p10) == p10 \div 10

Min(a, b) == IF a < b THEN a ELSE b

\* str(exit code)
CodeText(c) == IF c = 0 THEN "0" ELSE IF c = 1 THEN "1" ELSE "137"
ExitCodes == {0, 1, 137}

\* line.replace("ERROR:", "").replace("FAILED:", "").strip()
StripTags(line) ==
    SelectSeq(<<line.tag>> \o line.text,
              LAMBDA tok : tok \notin {"ERROR:", "FAILED:"})

DockerUnavailableMsg == <<"Docker not available or image not found">>
CancelMsg == <<"Job cancelled by user">>
ExecutionFailedMsg(e) == <<"Container execution failed:", e>>

(***************************************************************************)
(* Raw output of an execution unit: the keywords a line holds, the         *)
(* "current/total" counter when it has one, and its text.                  *)
(***************************************************************************)
Raw(kws, c, t, text) == [kws |-> kws, cur |-> c, total |-> t, text |-> text]
BlankRaw == Raw({}, 0, 0, <<>>)
\* the unit itself printed a marker: its output holds a tag that ends a job
ExplicitMarker(raw) ==
    \E i \in 1..Len(raw.text) :
        raw.text[i] \in {"COMPLETED:", "ERROR:", "FAILED:"}
TaskPairs == {<<0, 1>>, <<1, 2>>, <<2, 1>>, <<1, 0>>}

\* what a "docker run" process may print (subprocess backend)
RawSub ==
    { Raw({"initializing grass"}, 0, 0, <<"Initializing GRASS">>),
      Raw({"loading dem"}, 0, 0, <<"Loading DEM">>),
      Raw({"running r.sun"}, 0, 0, <<"Running r.sun">>),
      Raw({"monthly aggregation"}, 0, 0, <<"Monthly aggregation">>),
      Raw({"successfully"}, 0, 0, <<"Workflow completed successfully">>),
      Raw({"error"}, 0, 0, <<"ERROR:", "disk full">>),
      Raw({"error"}, 0, 0, <<"0 errors">>),
      Raw({"other"}, 0, 0, <<"r.sun day 12">>),
      BlankRaw }
    \cup { Raw({"task", "/"}, p[1], p[2], <<"task">>) : p \in TaskPairs }

\* _execute_subprocess_workflow, the if/elif chain on one output line.
\* Yields the protocol lines in order; a ZeroDivisionError leaves the loop
\* for the except branch.
SubClassify(raw, started, done) ==
    LET out(ys, st, dn, ex) ==
            [yields |-> ys, started |-> st, done |-> dn, raised |-> ex]
    IN  IF raw = BlankRaw THEN out(<<>>, started, done, FALSE)
        ELSE IF "initializing grass" \in raw.kws
        THEN out(<<StatusLine(<<"Initializing GRASS GIS environment">>),
                   ProgressLine(10 * GrassPct)>>, TRUE, done, FALSE)
        ELSE IF "loading dem" \in raw.kws
        THEN out(<<StatusLine(<<"Loading and processing DEM data">>),
                   ProgressLine(10 * DemPct)>>, started, done, FALSE)
        ELSE IF "running r.sun" \in raw.kws
        THEN out(<<StatusLine(<<"Starting solar radiation calculations">>),
                   ProgressLine(10 * SolarPct)>>, started, done, FALSE)
        ELSE IF {"task", "/"} \subseteq raw.kws
        THEN IF raw.total = 0
             THEN out(<<>>, started, done, TRUE)
             ELSE out(<<ProgressLine(10 * SolarPct
                                     + Fmt1(raw.cur * TaskSpanPct, raw.total)),
                        StatusLine(<<"Processing task">>)>>,
                      started, done, FALSE)
        ELSE IF "monthly aggregation" \in raw.kws
        THEN out(<<StatusLine(<<"Generating monthly aggregations">>),
                   ProgressLine(10 * MonthlyPct)>>, started, done, FALSE)
        ELSE IF "successfully" \in raw.kws
        THEN out(<<StatusLine(<<"Finalizing results">>),
                   ProgressLine(10 * FinalizingPct)>>, started, done, FALSE)
        ELSE IF "error" \in raw.kws
        THEN out(<<ErrorLine(raw.text)>>, started, done, FALSE)
        ELSE IF started
        THEN out(IF (done + 1) % GenericEvery = 0
                 THEN <<ProgressLine(
                          Min(10 * SolarPct
                              + Fmt1((done + 1) * TaskSpanPct, SolTasks),
                              10 * MonthlyPct))>>
                 ELSE <<>>,
                 started, done + 1, FALSE)
        ELSE out(<<>>, started, done, FALSE)

\* what a container may log (Docker SDK backend)
RawSdk ==
    { Raw({"initializing"}, 0, 0, <<"Initializing GRASS">>),
      Raw({"COMPLETED", "jobs"}, 0, 0, <<"COMPLETED 45 jobs">>),
      Raw({"workflow completed successfully"}, 0, 0,
          <<"Workflow completed successfully">>),
      Raw({"failed"}, 0, 0, <<"r.sun", "FAILED:", "no memory">>),
      Raw({"other"}, 0, 0, <<"r.sun day 12">>),
      BlankRaw }
    \cup { Raw({"Starting task", "/"}, p[1], p[2], <<"Starting task">>) :
             p \in TaskPairs }

\* WorkflowManager._parse_progress: the protocol line for a log line, as a
\* sequence of zero or one line; raised when int(current) / int(total)
\* divides by zero.
_parse_progress(raw) ==
    IF {"Starting task", "/"} \subseteq raw.kws
    THEN IF raw.total = 0
         THEN [yields |-> <<>>, raised |-> TRUE]
         ELSE [yields |-> <<ProgressLine(Fmt1(raw.cur * 100, raw.total))>>,
               raised |-> FALSE]
    ELSE IF {"COMPLETED", "jobs"} \subseteq raw.kws
    THEN [yields |-> <<CountLine(LoggedCount)>>, raised |-> FALSE]
    ELSE IF "initializing" \in raw.kws
    THEN [yields |-> <<StatusLine(raw.text)>>, raised |-> FALSE]
    ELSE [yields |-> <<>>, raised |-> FALSE]

\* WorkflowManager._monitor_container, one log line: what is yielded, and
\* whether the log loop is left (break, or the except branch).
SdkClassify(raw) ==
    LET pp == _parse_progress(raw)
    IN  IF raw = BlankRaw THEN [yields |-> <<>>, leave |-> FALSE, raised |-> FALSE]
        ELSE IF pp.raised
        THEN [yields |-> <<ErrorLine(<<"Monitoring failed:", "division by zero">>)>>,
              leave |-> TRUE, raised |-> TRUE]
        ELSE IF "workflow completed successfully" \in raw.kws
        THEN [yields |-> pp.yields
                         \o <<StatusLine(<<"Workflow completed successfully">>)>>,
              leave |-> TRUE, raised |-> FALSE]
        ELSE IF raw.kws \cap {"error", "failed"} # {}
        THEN [yields |-> pp.yields \o <<ErrorLine(raw.text)>>,
              leave |-> TRUE, raised |-> FALSE]
        ELSE [yields |-> pp.yields, leave |-> FALSE, raised |-> FALSE]

\* _execute_mock_workflow: the PROGRESS line of step i of MockSteps
MockProgress(i) == ProgressLine(Fmt1(i * 100, MockSteps))

(***************************************************************************)
(* State after construction: empty table and directories, no task, and     *)
(* the Docker client WorkflowManager.__init__ settled on.  Jobs share      *)
(* nothing but the event loop, so a run follows one job: the job an        *)
(* earlier run left in the table (no submission: pc "unused"), or the job  *)
(* submitted to a service that starts with an empty table.                 *)
(***************************************************************************)
NoTask ==
    [pc |-> "none", gen |-> "none", queue |-> <<>>, last_progress |-> 0,
     progress_started |-> FALSE, tasks_completed |-> 0, step |-> 0,
     nlines |-> 0, exc |-> "", prev_tag |-> "", prev_pct |-> NoPct,
     prev_text |-> <<>>, prev_wrote |-> FALSE, marker |-> FALSE,
     exit_code |-> NoCode]

\* the pids Popen hands out to this node, in order
Pids == 1..MaxStarts

NoProc == [state |-> "none", code |-> NoCode]
\* ~/.eemt-makeflow-password when it does not exist; a file that exists is
\* its text, a sequence of tokens
NoFile == <<"ENOENT">>
\* MasterConfig.work_queue_password = None
NoPassword == <<"None">>
NoNode ==
    [type |-> "local", pc |-> "none", reconnect_attempts |-> 0,
     started |-> 0, restarts |-> 0,
     password_file |-> NoFile, work_queue_password |-> NoPassword,
     monitor_thread |-> FALSE, runs |-> 0]

\* the cluster part of a service that runs as a local node
ClusterIdle ==
    /\ worker_processes = {}
    /\ procs = [p \in Pids |-> NoProc]
    /\ monitor = [p \in Pids |-> "none"]
    /\ node = NoNode

NoResp == [op |-> "none", job |-> None, code |-> 0]
Resp(op, j, code) == [op |-> op, job |-> j, code |-> code]
\* the supervision task of j called job_manager.update_status in this step
StoreCall(j) == Resp("update_status", j, 0)

NoDir == [exists |-> FALSE, files |-> {}]

\* rows the table may hold when the service starts (jobs.db outlives the
\* process): a finished job, or a job that was RUNNING when the service died
OldRows ==
    { [status |-> COMPLETED, progress |-> DoneProgress, error_message |-> NULL,
       started_at |-> 0, completed_at |-> 0],
      [status |-> FAILED, progress |-> InitStartedPct,
       error_message |-> <<"Workflow failed with exit code", "1">>,
       started_at |-> 0, completed_at |-> 0],
      [status |-> RUNNING, progress |-> DemPct, error_message |-> NULL,
       started_at |-> 0, completed_at |-> NoTime] }

Init ==
    /\ \/ jobs = [k \in {} |-> NewRow]
       \/ \E r \in OldRows : jobs = [k \in OldIds |-> r]
    /\ uploads = DOMAIN jobs
    /\ results = [j \in JobIds |->
                    IF j \in DOMAIN jobs
                    THEN [exists |-> TRUE,
                          files |-> IF jobs[j].status = COMPLETED
                                    THEN {"out"} ELSE {}]
                    ELSE NoDir]
    /\ zips = {}
    /\ temps = {}
    /\ wm_active = [j \in JobIds |-> "none"]
    /\ jm_active = {}
    /\ docker_client \in {None, "subprocess", "sdk"}
    /\ unit = [j \in JobIds |-> "none"]
    /\ task = [j \in JobIds |->
                 IF DOMAIN jobs = {} THEN NoTask
                 ELSE [NoTask EXCEPT !.pc = "unused"]]
    /\ loop = None
    /\ now = 0
    /\ resp = NoResp
    /\ cancelled = {}
    /\ ClusterIdle

\* WorkflowManager.check_docker_availability: False without a client,
\* otherwise whatever the daemon and the image list answer at this moment
check_docker_availability == IF docker_client = None THEN {FALSE} ELSE BOOLEAN

\* generator positions at an await that gives the event loop away
Suspending == {"spawning", "read", "wait", "mock_sleep"}

\* who holds the event loop once the task stands at (pc, queue, gen)
Holder(j, pc, queue, gen) ==
    IF pc = "stream" /\ queue = <<>> /\ gen \in Suspending THEN None ELSE j

\* the task of j moves on with the generator at gen and the lines ys yielded
Yielded(j, gen, ys) ==
    /\ task' = [task EXCEPT ![j].pc = "stream", ![j].gen = gen, ![j].queue = ys]
    /\ loop' = Holder(j, "stream", ys, gen)

\* wait() of the unit of j returned code and the generator yields its last
\* lines ys (exit_code is history: the code the unit exited with)
Exited(j, code, ys) ==
    /\ task' = [task EXCEPT ![j].pc = "stream", ![j].gen = "ended",
                            ![j].queue = ys, ![j].exit_code = code]
    /\ loop' = j

\* the generator of j caught the exception e and yields the lines ys
Raised(j, e, ys) ==
    /\ task' = [task EXCEPT ![j].pc = "stream", ![j].gen = "ended",
                            ![j].queue = ys, ![j].exc = e]
    /\ loop' = j

\* the wall clock advances
Tick ==
    /\ now < MaxTime
    /\ now' = now + 1
    /\ resp' = NoResp
    /\ UNCHANGED <<jobs, artifacts, wm_active, jm_active, docker_client,
                   cluster, unit, task, loop, cancelled>>

\* POST /api/submit-job: save the upload, insert the PENDING row, create the
\* supervision task
submit_job(j) ==
    /\ loop = None
    /\ j \in NewIds
    /\ task[j].pc = "none"
    /\ uploads' = uploads \cup {j}
    /\ jobs' = InsertRow(jobs, j)
    /\ task' = [task EXCEPT ![j].pc = "created"]
    /\ resp' = Resp("submit", j, 200)
    /\ UNCHANGED <<results, zips, temps, wm_active, jm_active, docker_client,
                   cluster, unit, loop, now, cancelled>>

(***************************************************************************)
(* execute_containerized_workflow, the supervision task of one job.        *)
(***************************************************************************)
\* the task going to the availability check without its RUNNING write
TaskStart_nowrite(j) ==
    /\ loop = None
    /\ task[j].pc = "created"
    /\ task' = [task EXCEPT ![j].pc = "check"]
    /\ loop' = j
    /\ resp' = NoResp
    /\ UNCHANGED <<jobs, artifacts, wm_active, jm_active, docker_client,
                   cluster, unit, now, cancelled>>

\* first step of the task: update_status(RUNNING, progress=5)
TaskStart(j) ==
    /\ loop = None
    /\ task[j].pc = "created"
    /\ jobs' = update_status(jobs, now, j, RUNNING, StartProgress, NULL)
    /\ task' = [task EXCEPT ![j].pc = "check"]
    /\ loop' = j
    /\ resp' = StoreCall(j)
    /\ UNCHANGED <<artifacts, wm_active, jm_active, docker_client, cluster,
                   unit, now, cancelled>>

\* the engine's check returning without a store write when Docker is away
CheckDocker_silent(j) ==
    /\ loop = j
    /\ task[j].pc = "check"
    /\ \E avail \in check_docker_availability :
         task' = [task EXCEPT ![j].pc = IF avail THEN "gen_first"
                                        ELSE "finally"]
    /\ resp' = NoResp
    /\ UNCHANGED <<jobs, artifacts, wm_active, jm_active, docker_client,
                   cluster, unit, loop, now, cancelled>>

\* "if not workflow_manager.check_docker_availability()": fail and return
CheckDocker(j) ==
    /\ loop = j
    /\ task[j].pc = "check"
    /\ \E avail \in check_docker_availability :
         IF avail
         THEN /\ task' = [task EXCEPT ![j].pc = "gen_first"]
              /\ resp' = NoResp
              /\ UNCHANGED jobs
         ELSE /\ jobs' = update_status(jobs, now, j, FAILED, NoProgress,
                                       DockerUnavailableMsg)
              /\ task' = [task EXCEPT ![j].pc = "finally"]
              /\ resp' = StoreCall(j)
    /\ UNCHANGED <<artifacts, wm_active, jm_active, docker_client, cluster,
                   unit, loop, now, cancelled>>

\* execute_workflow, first resumption, Docker not available at its own
\* check: _execute_mock_workflow up to its first asyncio.sleep
GenFirstMock(j) ==
    /\ loop = j
    /\ task[j].pc = "gen_first"
    /\ FALSE \in check_docker_availability
    /\ task' = [task EXCEPT ![j].pc = "stream", ![j].gen = "mock_sleep",
                            ![j].step = 1,
                            ![j].queue =
                                <<StatusLine(<<"Mock workflow starting">>),
                                  StatusLine(<<"Processing workflow">>),
                                  MockProgress(1),
                                  StatusLine(<<"step">>)>>]
    /\ resp' = NoResp
    /\ UNCHANGED <<jobs, artifacts, wm_active, jm_active, docker_client,
                   cluster, unit, loop, now, cancelled>>

\* execute_workflow, first resumption, subprocess mode:
\* _execute_subprocess_workflow up to "await create_subprocess_exec"
GenFirstSub(j) ==
    /\ loop = j
    /\ task[j].pc = "gen_first"
    /\ docker_client = "subprocess"
    /\ IF j \notin uploads
       THEN /\ Yielded(j, "ended", <<ErrorLine(<<"DEM file not found:", "dem">>)>>)
            /\ UNCHANGED <<results, temps>>
       ELSE /\ results' = [results EXCEPT ![j].exists = TRUE]
            /\ temps' = temps \cup {j}
            /\ Yielded(j, "spawning",
                       <<StatusLine(<<"Container environment ready">>),
                         ProgressLine(10 * EnvReadyPct)>>)
    /\ resp' = NoResp
    /\ UNCHANGED <<jobs, uploads, zips, wm_active, jm_active, docker_client,
                   cluster, unit, now, cancelled>>

\* execute_workflow, first resumption, SDK mode: _prepare_volumes,
\* containers.run, the handle stored, _monitor_container's first yield
GenFirstSdk(j) ==
    /\ loop = j
    /\ task[j].pc = "gen_first"
    /\ docker_client = "sdk"
    /\ results' = [results EXCEPT ![j].exists = TRUE]
    /\ temps' = temps \cup {j}
    /\ \E started \in {"ok", "ImageNotFound", "Exception"} :
         IF started = "ok"
         THEN /\ unit' = [unit EXCEPT ![j] = "running"]
              /\ wm_active' = [wm_active EXCEPT ![j] = "container"]
              /\ Yielded(j, "sdk_read",
                         <<StatusLine(<<"Container started">>)>>)
         ELSE IF started = "ImageNotFound"
         THEN /\ Yielded(j, "ended",
                         <<ErrorLine(<<"Docker image not found.">>)>>)
              /\ UNCHANGED <<unit, wm_active>>
         ELSE /\ Raised(j, "e", <<ErrorLine(<<"Unexpected error:", "e">>)>>)
              /\ UNCHANGED <<unit, wm_active>>
    /\ resp' = NoResp
    /\ UNCHANGED <<jobs, uploads, zips, jm_active, docker_client, cluster, now,
                   cancelled>>

\* a PROGRESS line written whatever the last percentage was
ProgressApplies_always(line, last) ==
    line.tag = "PROGRESS:" /\ line.pct # NoPct

\* the consumer's test of a line: startswith("PROGRESS:"), a '%' in the
\* payload, and "progress_pct != last_progress"
ProgressApplies(line, last) ==
    line.tag = "PROGRESS:" /\ line.pct # NoPct /\ line.pct # last

\* the tags of the lines that end a job
TerminalTags == {"COMPLETED:", "ERROR:", "FAILED:"}

\* a consumer that never leaves the loop
Leaves_never(line) == FALSE

\* the consumer's "break" after a COMPLETED:, ERROR: or FAILED: line
Leaves(line) == line.tag \in TerminalTags

\* the body of "async for progress_update in progress_stream" on one line;
\* prev_tag, prev_pct, prev_text and prev_wrote are history: the tag, the
\* percentage and the text of the line read just before, and whether it led
\* to a call of update_status
Consume(j) ==
    /\ loop = j
    /\ task[j].pc = "stream"
    /\ task[j].queue # <<>>
    /\ LET line == Head(task[j].queue)
           rest == Tail(task[j].queue)
           t == task[j]
           leave == Leaves(line)
           pc2 == IF leave \/ (rest = <<>> /\ t.gen = "ended")
                  THEN "final_check" ELSE "stream"
           q2 == IF leave THEN <<>> ELSE rest
           apply == ProgressApplies(line, t.last_progress)
           wrote == apply \/ line.tag \in TerminalTags
       IN  /\ jobs' =
                IF apply
                THEN update_status(jobs, now, j, RUNNING, IntOf(line.pct), NULL)
                ELSE IF line.tag = "COMPLETED:"
                THEN update_status(jobs, now, j, COMPLETED, DoneProgress, NULL)
                ELSE IF line.tag \in {"ERROR:", "FAILED:"}
                THEN update_status(jobs, now, j, FAILED, NoProgress,
                                   StripTags(line))
                ELSE jobs
           /\ task' = [task EXCEPT ![j].pc = pc2, ![j].queue = q2,
                                   ![j].last_progress =
                                       IF apply THEN line.pct ELSE @,
                                   ![j].prev_pct =
                                       IF line.tag = "PROGRESS:"
                                       THEN line.pct ELSE NoPct,
                                   ![j].prev_tag = line.tag,
                                   ![j].prev_text = StripTags(line),
                                   ![j].prev_wrote = wrote]
           /\ loop' = Holder(j, pc2, q2, t.gen)
           /\ resp' = IF wrote THEN StoreCall(j) ELSE NoResp
    /\ UNCHANGED <<artifacts, wm_active, jm_active, docker_client, cluster,
                   unit, now, cancelled>>

\* _execute_subprocess_workflow resumed from "await create_subprocess_exec":
\* the process handle is stored, or the exception becomes an ERROR line
SpawnDone(j) ==
    /\ loop = None
    /\ task[j].pc = "stream" /\ task[j].queue = <<>>
    /\ task[j].gen = "spawning"
    /\ \E ok \in BOOLEAN :
         IF ok
         THEN /\ unit' = [unit EXCEPT ![j] = "running"]
              /\ wm_active' = [wm_active EXCEPT ![j] = "process"]
              /\ Yielded(j, "read",
                         <<StatusLine(<<"Workflow initialization started">>),
                           ProgressLine(10 * InitStartedPct)>>)
         ELSE /\ Raised(j, "e",
                        <<ErrorLine(<<"Workflow execution failed:", "e">>)>>)
              /\ UNCHANGED <<unit, wm_active>>
    /\ resp' = NoResp
    /\ UNCHANGED <<jobs, artifacts, jm_active, docker_client, cluster, now,
                   cancelled>>

\* "line = await process.stdout.readline()" returns a line of output
ReadLine(j) ==
    /\ loop = None
    /\ task[j].pc = "stream" /\ task[j].queue = <<>>
    /\ task[j].gen = "read"
    /\ task[j].nlines < MaxLines
    /\ \E raw \in RawSub :
         LET c == SubClassify(raw, task[j].progress_started,
                              task[j].tasks_completed)
             gen2 == IF c.raised THEN "ended" ELSE "read"
             ys == IF c.raised
                   THEN <<ErrorLine(<<"Workflow execution failed:",
                                      "division by zero">>)>>
                   ELSE c.yields
         IN  /\ task' = [task EXCEPT ![j].gen = gen2, ![j].queue = ys,
                                     ![j].progress_started = c.started,
                                     ![j].tasks_completed = c.done,
                                     ![j].nlines = @ + 1,
                                     ![j].marker = @ \/ ExplicitMarker(raw),
                                     ![j].exc = IF c.raised
                                                THEN "division by zero" ELSE @]
             /\ loop' = Holder(j, "stream", ys, gen2)
    /\ resp' = NoResp
    /\ UNCHANGED <<jobs, artifacts, wm_active, jm_active, docker_client,
                   cluster, unit, now, cancelled>>

\* readline returns b"": the loop is left for "await process.wait()"
ReadEof(j) ==
    /\ loop = None
    /\ task[j].pc = "stream" /\ task[j].queue = <<>>
    /\ task[j].gen = "read"
    /\ task' = [task EXCEPT ![j].gen = "wait"]
    /\ resp' = NoResp
    /\ UNCHANGED <<jobs, artifacts, wm_active, jm_active, docker_client,
                   cluster, unit, loop, now, cancelled>>

\* the unit's outputs, written under /data/output by a unit that succeeds
UnitOutput(res, j, code) ==
    IF code = 0 /\ res[j].exists
    THEN [res EXCEPT ![j].files = @ \cup {"out"}]
    ELSE res

\* _execute_subprocess_workflow, "if return_code == 0: ... else: ..."
SubExitLines(code) ==
    IF code = 0
    THEN <<ProgressLine(10 * DoneProgress),
           CompletedLine(<<"Workflow execution finished successfully">>)>>
    ELSE <<ErrorLine(<<"Workflow failed with exit code", CodeText(code)>>)>>

\* _monitor_container, "if exit_code == 0: ... else: ..."
SdkExitLines(code) ==
    IF code = 0
    THEN <<CompletedLine(<<"Workflow execution finished successfully">>)>>
    ELSE <<FailedLine(<<"Container exited with code", CodeText(code)>>)>>

\* process.wait() returns the exit code
WaitDone(j) ==
    /\ loop = None
    /\ task[j].pc = "stream" /\ task[j].queue = <<>>
    /\ task[j].gen = "wait"
    /\ \E code \in ExitCodes :
         /\ unit' = [unit EXCEPT ![j] = "exited"]
         /\ results' = UnitOutput(results, j, code)
         /\ Exited(j, code, SubExitLines(code))
    /\ resp' = NoResp
    /\ UNCHANGED <<jobs, uploads, zips, temps, wm_active, jm_active,
                   docker_client, cluster, now, cancelled>>

\* _execute_mock_workflow resumed from asyncio.sleep(2): the next step, or
\* the mock result files and the COMPLETED line
MockResume(j) ==
    /\ loop = None
    /\ task[j].pc = "stream" /\ task[j].queue = <<>>
    /\ task[j].gen = "mock_sleep"
    /\ IF task[j].step < MockSteps
       THEN /\ task' = [task EXCEPT ![j].step = @ + 1,
                                    ![j].queue = <<MockProgress(task[j].step + 1),
                                                   StatusLine(<<"step">>)>>]
            /\ loop' = j
            /\ UNCHANGED results
       ELSE \E ok \in BOOLEAN :
              IF ok
              THEN /\ results' = [results EXCEPT ![j] =
                                     [exists |-> TRUE,
                                      files |-> @.files \cup {"mock"}]]
                   /\ Yielded(j, "ended",
                              <<CompletedLine(<<"Mock workflow execution finished successfully">>)>>)
              ELSE /\ task' = [task EXCEPT ![j].pc = "except",
                                           ![j].gen = "ended",
                                           ![j].exc = "e"]
                   /\ loop' = j
                   /\ UNCHANGED results
    /\ resp' = NoResp
    /\ UNCHANGED <<jobs, uploads, zips, temps, wm_active, jm_active,
                   docker_client, cluster, unit, now, cancelled>>

\* _monitor_container: the next line of container.logs(stream=True), or the
\* end of the log stream
SdkReadLine(j) ==
    /\ loop = j
    /\ task[j].pc = "stream" /\ task[j].queue = <<>>
    /\ task[j].gen = "sdk_read"
    /\ \/ /\ task[j].nlines < MaxLines
          /\ \E raw \in RawSdk :
               LET c == SdkClassify(raw)
                   gen2 == IF c.raised THEN "ended"
                           ELSE IF c.leave THEN "sdk_wait" ELSE "sdk_read"
               IN  task' = [task EXCEPT ![j].gen = gen2, ![j].queue = c.yields,
                                        ![j].nlines = @ + 1,
                                        ![j].marker = @ \/ ExplicitMarker(raw),
                                        ![j].exc = IF c.raised
                                                   THEN "division by zero"
                                                   ELSE @]
       \/ task' = [task EXCEPT ![j].gen = "sdk_wait"]
    /\ resp' = NoResp
    /\ UNCHANGED <<jobs, artifacts, wm_active, jm_active, docker_client,
                   cluster, unit, loop, now, cancelled>>

\* _monitor_container: container.wait() and the line for the exit code
SdkWait(j) ==
    /\ loop = j
    /\ task[j].pc = "stream" /\ task[j].queue = <<>>
    /\ task[j].gen = "sdk_wait"
    /\ \E code \in ExitCodes :
         /\ unit' = [unit EXCEPT ![j] = "exited"]
         /\ results' = UnitOutput(results, j, code)
         /\ Exited(j, code, SdkExitLines(code))
    /\ resp' = NoResp
    /\ UNCHANGED <<jobs, uploads, zips, temps, wm_active, jm_active,
                   docker_client, cluster, now, cancelled>>

\* "Final status check": a job still RUNNING is marked COMPLETED (fallback)
FinalCheck(j) ==
    /\ loop = j
    /\ task[j].pc = "final_check"
    /\ jobs' = IF StatusOf(jobs, j) = RUNNING
               THEN update_status(jobs, now, j, COMPLETED, DoneProgress, NULL)
               ELSE jobs
    /\ task' = [task EXCEPT ![j].pc = "finally"]
    /\ resp' = IF StatusOf(jobs, j) = RUNNING THEN StoreCall(j) ELSE NoResp
    /\ UNCHANGED <<artifacts, wm_active, jm_active, docker_client, cluster,
                   unit, loop, now, cancelled>>

\* the except branch only logging the error
ExceptHandler_logonly(j) ==
    /\ loop = j
    /\ task[j].pc = "except"
    /\ task' = [task EXCEPT ![j].pc = "finally"]
    /\ resp' = NoResp
    /\ UNCHANGED <<jobs, artifacts, wm_active, jm_active, docker_client,
                   cluster, unit, loop, now, cancelled>>

\* "except Exception as e": FAILED with the exception text
ExceptHandler(j) ==
    /\ loop = j
    /\ task[j].pc = "except"
    /\ jobs' = update_status(jobs, now, j, FAILED, NoProgress,
                             ExecutionFailedMsg(task[j].exc))
    /\ task' = [task EXCEPT ![j].pc = "finally"]
    /\ resp' = StoreCall(j)
    /\ UNCHANGED <<artifacts, wm_active, jm_active, docker_client, cluster,
                   unit, loop, now, cancelled>>

\* a cleanup that leaves the temp directory in place
cleanup_job_data_keeptemp(tmp, res, j, keep_results) ==
    [temps |-> tmp, results |-> res]

\* WorkflowManager.cleanup_job_data: the temp directory goes; the results
\* directory goes when asked, which needs the "import shutil" that only the
\* temp branch executes (UnboundLocalError otherwise, caught and logged)
cleanup_job_data(tmp, res, j, keep_results) ==
    [temps |-> tmp \ {j},
     results |-> IF ~keep_results /\ res[j].exists /\ j \in tmp
                 THEN [res EXCEPT ![j] = NoDir]
                 ELSE res]

\* "finally": cleanup_job_data(job_id, keep_results=True); the task returns
Finally(j) ==
    /\ loop = j
    /\ task[j].pc = "finally"
    /\ LET c == cleanup_job_data(temps, results, j, TRUE)
       IN  /\ temps' = c.temps
           /\ results' = c.results
    /\ task' = [task EXCEPT ![j].pc = IF task[j].gen = "none" THEN "done"
                                      ELSE "closing"]
    /\ loop' = None
    /\ resp' = NoResp
    /\ UNCHANGED <<jobs, uploads, zips, wm_active, jm_active, docker_client,
                   cluster, unit, now, cancelled>>

\* the abandoned generator is finalized (aclose): GeneratorExit at the yield
\* runs execute_workflow's "finally", which is around the SDK path only
AgenClose(j) ==
    /\ loop = None
    /\ task[j].pc = "closing"
    /\ wm_active' = IF wm_active[j] = "container"
                    THEN [wm_active EXCEPT ![j] = "none"]
                    ELSE wm_active
    /\ task' = [task EXCEPT ![j].pc = "done"]
    /\ resp' = NoResp
    /\ UNCHANGED <<jobs, artifacts, jm_active, docker_client, cluster, unit,
                   loop, now, cancelled>>

\* the execution unit of a task that has ended runs on and exits by itself:
\* a consumer that left the loop never reaches process.wait() or
\* container.wait()
UnitExits(j) ==
    /\ unit[j] = "running"
    /\ task[j].pc \in {"closing", "done"}
    /\ \E code \in ExitCodes :
         /\ unit' = [unit EXCEPT ![j] = "exited"]
         /\ results' = UnitOutput(results, j, code)
         /\ task' = [task EXCEPT ![j].exit_code = code]
    /\ resp' = NoResp
    /\ UNCHANGED <<jobs, uploads, zips, temps, wm_active, jm_active,
                   docker_client, cluster, loop, now, cancelled>>

(***************************************************************************)
(* Endpoints: cancel, delete, download.                                    *)
(***************************************************************************)
\* WorkflowManager.stop_job_container: a Docker SDK container is stopped,
\* removed and dropped from the map; an asyncio subprocess handle has no
\* stop(), so the AttributeError is caught and False returned with the
\* process running and the entry still in the map
stop_job_container(active, units, j) ==
    IF active[j] = "container"
    THEN [active |-> [active EXCEPT ![j] = "none"],
          unit |-> [units EXCEPT ![j] = "stopped"],
          stopped |-> TRUE]
    ELSE [active |-> active, unit |-> units, stopped |-> FALSE]

\* JobManager.cancel_job: only a RUNNING job; its entry leaves
\* JobManager.active_containers; update_status(FAILED, error=...)
cancel_job(db, jm, t, j) ==
    IF StatusOf(db, j) # RUNNING
    THEN [jobs |-> db, jm_active |-> jm, ok |-> FALSE]
    ELSE [jobs |-> update_status(db, t, j, FAILED, NoProgress, CancelMsg),
          jm_active |-> jm \ {j},
          ok |-> TRUE]

\* the endpoint's check letting a PENDING job through
NotCancellable_terminal(status) == status \in Terminal

\* the endpoint's "if job['status'] != JobStatus.RUNNING: raise 400"
NotCancellable(status) == status # RUNNING

\* POST /api/jobs/{job_id}/cancel
cancel_job_endpoint(j) ==
    /\ loop = None
    /\ IF ~JobExists(jobs, j)
       THEN /\ resp' = Resp("cancel", j, 404)
            /\ UNCHANGED <<jobs, wm_active, jm_active, unit, cancelled>>
       ELSE IF NotCancellable(jobs[j].status)
       THEN /\ resp' = Resp("cancel", j, 400)
            /\ UNCHANGED <<jobs, wm_active, jm_active, unit, cancelled>>
       ELSE LET s == stop_job_container(wm_active, unit, j)
                c == cancel_job(jobs, jm_active, now, j)
            IN  /\ wm_active' = s.active
                /\ unit' = s.unit
                /\ jobs' = c.jobs
                /\ jm_active' = c.jm_active
                /\ resp' = Resp("cancel", j, IF c.ok THEN 200 ELSE 500)
                /\ cancelled' = IF c.ok THEN cancelled \cup {j} ELSE cancelled
    /\ UNCHANGED <<artifacts, docker_client, cluster, task, loop, now>>

\* where a delete may meet a sqlite3 or OS error: nowhere, at the DELETE, at
\* rmtree of the results directory, at unlink of the zip or of the upload
DeleteFaults == {"none", "db", "results", "zip", "upload"}

FsErrorMsg == "Database or filesystem error"

\* JobManager.delete_job after its checks: the DELETE is committed, then the
\* results directory, the zip and the upload are removed in this order; an
\* exception on the way leaves the rest as it is ("except Exception")
purge(db, ups, res, zs, j, fault) ==
    LET out(d, u, r, z, ok) ==
            [jobs |-> d, uploads |-> u, results |-> r, zips |-> z,
             success |-> ok, error |-> IF ok THEN "" ELSE FsErrorMsg]
        gone == [res EXCEPT ![j] = NoDir]
    IN  IF fault = "db" THEN out(db, ups, res, zs, FALSE)
        ELSE IF fault = "results" /\ res[j].exists
        THEN out(DeleteRow(db, j), ups, res, zs, FALSE)
        ELSE IF fault = "zip" /\ j \in zs
        THEN out(DeleteRow(db, j), ups, gone, zs, FALSE)
        ELSE IF fault = "upload" /\ j \in ups
        THEN out(DeleteRow(db, j), ups, gone, zs \ {j}, FALSE)
        ELSE out(DeleteRow(db, j), ups \ {j}, gone, zs \ {j}, TRUE)

\* delete_job without the check for a RUNNING job
delete_job_unchecked(db, ups, res, zs, j, fault) ==
    IF ~JobExists(db, j)
    THEN [jobs |-> db, uploads |-> ups, results |-> res, zips |-> zs,
          success |-> FALSE, error |-> "Job not found"]
    ELSE purge(db, ups, res, zs, j, fault)

\* JobManager.delete_job: refused for an unknown or a RUNNING job; otherwise
\* the row, the results directory, the zip and the upload are removed
delete_job(db, ups, res, zs, j, fault) ==
    IF ~JobExists(db, j)
    THEN [jobs |-> db, uploads |-> ups, results |-> res, zips |-> zs,
          success |-> FALSE, error |-> "Job not found"]
    ELSE IF db[j].status = RUNNING
    THEN [jobs |-> db, uploads |-> ups, results |-> res, zips |-> zs,
          success |-> FALSE, error |-> "Cannot delete running job"]
    ELSE purge(db, ups, res, zs, j, fault)

\* DELETE /api/jobs/{job_id}
delete_job_endpoint(j) ==
    /\ loop = None
    /\ \E fault \in DeleteFaults :
       LET d == delete_job(jobs, uploads, results, zips, j, fault)
           c == cleanup_job_data(temps, d.results, j, FALSE)
       IN  /\ jobs' = d.jobs
           /\ uploads' = d.uploads
           /\ zips' = d.zips
           /\ IF d.success
              THEN /\ results' = c.results
                   /\ temps' = c.temps
                   /\ resp' = Resp("delete", j, 200)
              ELSE /\ results' = d.results
                   /\ temps' = temps
                   /\ resp' = Resp("delete", j,
                                   IF d.error = "Job not found" THEN 404
                                   ELSE IF d.error = "Cannot delete running job"
                                   THEN 400 ELSE 500)
    /\ UNCHANGED <<wm_active, jm_active, docker_client, cluster, unit, task,
                   loop, now, cancelled>>

\* GET /api/jobs/{job_id}/results: the zip archive of a COMPLETED job whose
\* results directory exists (the 404 and 400 answers change nothing)
download_results(j) ==
    /\ loop = None
    /\ JobExists(jobs, j)
    /\ jobs[j].status = COMPLETED
    /\ results[j].exists
    /\ zips' = zips \cup {j}
    /\ resp' = Resp("download", j, 200)
    /\ UNCHANGED <<jobs, uploads, results, temps, wm_active, jm_active,
                   docker_client, cluster, unit, task, loop, now, cancelled>>

(***************************************************************************)
(* The engine: endpoints, supervision tasks, the clock.                    *)
(***************************************************************************)
Supervise(j) ==
    \/ TaskStart(j)
    \/ CheckDocker(j)
    \/ GenFirstMock(j)
    \/ GenFirstSub(j)
    \/ GenFirstSdk(j)
    \/ Consume(j)
    \/ SpawnDone(j)
    \/ ReadLine(j)
    \/ ReadEof(j)
    \/ WaitDone(j)
    \/ MockResume(j)
    \/ SdkReadLine(j)
    \/ SdkWait(j)
    \/ FinalCheck(j)
    \/ ExceptHandler(j)
    \/ Finally(j)
    \/ AgenClose(j)

Next ==
    \/ Tick
    \/ \E j \in JobIds :
         \/ submit_job(j)
         \/ cancel_job_endpoint(j)
         \/ delete_job_endpoint(j)
         \/ download_results(j)
         \/ Supervise(j)
         \/ UnitExits(j)

Spec == Init /\ [][Next]_vars

\* a first start of the service: init_database() has just created an empty
\* jobs table
FreshInit == Init /\ DOMAIN jobs = {}

\* the event loop runs every task that is ready (asyncio schedules a ready
\* task, and an awaited subprocess call or sleep returns)
FairSpec ==
    FreshInit /\ [][Next]_vars /\ \A j \in NewIds : WF_vars(Supervise(j))

(***************************************************************************)
(* Retention: JobManager.cleanup_old_jobs (POST /api/cleanup) and          *)
(* cleanup_jobs.py (JobCleanupManager).  Time is counted in hours.  A       *)
(* timestamp text is <<day, separator, hour of the day>>: datetime.now()   *)
(* .isoformat() writes "YYYY-MM-DDTHH:MM:SS.ffffff", SQLite's datetime()   *)
(* writes "YYYY-MM-DD HH:MM:SS".  A directory weighs one MB per file.      *)
(* The script works on base_dir/jobs.db, base_dir/results and              *)
(* base_dir/uploads; it is modelled on the store and directories of the   *)
(* service (DB_PATH = BASE_DIR / "jobs.db").                               *)
(***************************************************************************)
\* the instants a retention run may see: half days
Instants == {12 * k : k \in 0..MaxHalfDays}

\* datetime.isoformat()
isoformat(t) == <<t \div HoursPerDay, "T", t % HoursPerDay>>

\* SQLite datetime(text)
sql_datetime(txt) == <<txt[1], " ", txt[3]>>

\* the code point order of the two separators: ' ' is 0x20, 'T' is 0x54
CharRank(c) == IF c = " " THEN 0 ELSE 1

\* SQLite "a < b" on two TEXT values: byte-wise, left to right
TextLess(a, b) ==
    \/ a[1] < b[1]
    \/ /\ a[1] = b[1]
       /\ \/ CharRank(a[2]) < CharRank(b[2])
          \/ CharRank(a[2]) = CharRank(b[2]) /\ a[3] < b[3]

\* now - timedelta(days=success_retention_days)
SuccessCutoff(t, days) == t - days * HoursPerDay

\* now - timedelta(hours=failed_retention_hours)
FailedCutoff(t, hours) == t - hours

\* WHERE status = ? AND completed_at IS NOT NULL
\*   AND datetime(completed_at) < cutoff.isoformat()
Eligible(db, status, cutoff) ==
    {j \in DOMAIN db :
        /\ db[j].status = status
        /\ db[j].completed_at # NoTime
        /\ TextLess(sql_datetime(isoformat(db[j].completed_at)),
                    isoformat(cutoff))}

\* _get_directory_size_mb
DirSizeMb(dir) == Cardinality(dir.files)

\* the orders in which fetchall() may hand out the rows ids
Orders(ids) ==
    {s \in [1..Cardinality(ids) -> ids] :
        \A a, b \in 1..Cardinality(ids) : a # b => s[a] # s[b]}

\* ... ORDER BY completed_at ASC
OrdersByAge(db, ids) ==
    {s \in Orders(ids) :
        \A a, b \in 1..Cardinality(ids) :
            a < b => db[s[a]].completed_at <= db[s[b]].completed_at}

\* the retention arguments tried: days for COMPLETED, hours for FAILED
SuccessRetentionDays == {1}
FailedRetentionHours == {12}

\* the job whose results directory rmtree cannot remove, if any
PurgeFaults == JobIds \cup {None}

NoStats ==
    [processed_jobs |-> 0, successful_cleaned |-> 0, failed_deleted |-> 0,
     space_freed_mb |-> 0, errors |-> <<>>]

\* one "for job_id, dem_filename in ..." loop of cleanup_old_jobs over the
\* rows in order, inside the single try block: s.raised ends the run.
\* s.deleted are the rows DELETEd on the connection and not yet committed.
RECURSIVE jm_loop(_, _, _, _, _)
jm_loop(s, order, failed, dry_run, fault) ==
    IF order = <<>> \/ s.raised THEN s
    ELSE LET j == Head(order)
             rm == ~dry_run /\ s.results[j].exists
             sized == IF rm
                      THEN [s EXCEPT !.stats.space_freed_mb =
                                         @ + DirSizeMb(s.results[j])]
                      ELSE s
         IN  IF rm /\ fault = j
             THEN [sized EXCEPT !.raised = TRUE]
             ELSE LET r == IF rm
                           THEN [sized EXCEPT !.results[j] = NoDir]
                           ELSE sized
                      u == IF failed /\ ~dry_run /\ j \in r.uploads
                           THEN [r EXCEPT !.uploads = @ \ {j},
                                          !.stats.space_freed_mb =
                                              @ + UploadSizeMb]
                           ELSE r
                      d == IF failed /\ ~dry_run
                           THEN [u EXCEPT !.deleted = @ \cup {j}]
                           ELSE u
                      c == IF failed
                           THEN [d EXCEPT !.stats.failed_deleted = @ + 1,
                                          !.stats.processed_jobs = @ + 1]
                           ELSE [d EXCEPT !.stats.successful_cleaned = @ + 1,
                                          !.stats.processed_jobs = @ + 1]
                  IN  jm_loop(c, Tail(order), failed, dry_run, fault)

\* a run that never commits its DELETEs
commit_never(db, deleted, raised) == db

\* "if not dry_run: conn.commit()", reached when nothing raised; otherwise
\* the DELETEs are rolled back when the connection goes
commit(db, deleted, raised) ==
    IF raised THEN db ELSE [k \in DOMAIN db \ deleted |-> db[k]]

\* JobManager.cleanup_old_jobs: the COMPLETED rows in the order so, then the
\* FAILED rows in the order fo; commit at the end, or the except branch
\* (the DELETEs are lost with the connection)
cleanup_old_jobs(db, ups, res, so, fo, dry_run, fault) ==
    LET s0 == [results |-> res, uploads |-> ups, deleted |-> {},
               stats |-> NoStats, raised |-> FALSE]
        s1 == jm_loop(s0, so, FALSE, dry_run, fault)
        s2 == jm_loop(s1, fo, TRUE, dry_run, fault)
    IN  [jobs |-> commit(db, s2.deleted, s2.raised),
         uploads |-> s2.uploads,
         results |-> s2.results,
         stats |-> IF s2.raised
                   THEN [s2.stats EXCEPT !.errors =
                             Append(@, "Error during cleanup")]
                   ELSE s2.stats]

\* JobCleanupManager.cleanup_job_data of one job on the state s: the try
\* block up to the statement that raises; the answer is the state and the
\* job's cleanup_stats
jc_cleanup_job_data(s, j, keep_job_config, dry_run, fault) ==
    LET has == s.results[j].exists
        boom == has /\ ~dry_run /\ fault = j
        size1 == IF has /\ ~boom THEN DirSizeMb(s.results[j]) ELSE 0
        up == ~boom /\ j \in s.uploads
        size2 == IF up THEN UploadSizeMb ELSE 0
        del == ~boom /\ ~keep_job_config
    IN  [state |->
            [jobs |-> IF del /\ ~dry_run
                      THEN [k \in DOMAIN s.jobs \ {j} |-> s.jobs[k]]
                      ELSE s.jobs,
             uploads |-> IF up /\ ~dry_run THEN s.uploads \ {j}
                         ELSE s.uploads,
             results |-> IF has /\ ~boom /\ ~dry_run
                         THEN [s.results EXCEPT ![j] = NoDir]
                         ELSE s.results],
         size_freed_mb |-> size1 + size2,
         config_preserved |-> IF del THEN FALSE ELSE keep_job_config,
         errors |-> IF boom THEN <<"Error cleaning up job">> ELSE <<>>]

NoSummary ==
    [successful_jobs_processed |-> 0, failed_jobs_processed |-> 0,
     total_size_freed_mb |-> 0, configs_preserved |-> 0,
     configs_deleted |-> 0, errors |-> <<>>]

\* one "for job in jobs_to_clean[...]" loop of run_cleanup
RECURSIVE jc_loop(_, _, _, _, _, _)
jc_loop(s, sum, order, failed, dry_run, fault) ==
    IF order = <<>> THEN [state |-> s, summary |-> sum]
    ELSE LET c == jc_cleanup_job_data(s, Head(order), ~failed, dry_run, fault)
             n == IF failed
                  THEN [sum EXCEPT
                          !.failed_jobs_processed = @ + 1,
                          !.total_size_freed_mb = @ + c.size_freed_mb,
                          !.configs_deleted =
                              IF c.config_preserved THEN @ ELSE @ + 1,
                          !.errors = @ \o c.errors]
                  ELSE [sum EXCEPT
                          !.successful_jobs_processed = @ + 1,
                          !.total_size_freed_mb = @ + c.size_freed_mb,
                          !.configs_preserved =
                              IF c.config_preserved THEN @ + 1 ELSE @,
                          !.errors = @ \o c.errors]
         IN  jc_loop(c.state, n, Tail(order), failed, dry_run, fault)

\* JobCleanupManager.run_cleanup on the rows get_jobs_for_cleanup selected
run_cleanup(db, ups, res, so, fo, dry_run, fault) ==
    LET s0 == [jobs |-> db, uploads |-> ups, results |-> res]
        a == jc_loop(s0, NoSummary, so, FALSE, dry_run, fault)
        b == jc_loop(a.state, a.summary, fo, TRUE, dry_run, fault)
    IN  [jobs |-> b.state.jobs, uploads |-> b.state.uploads,
         results |-> b.state.results, stats |-> b.summary]

\* what a retention run was and what it answered
Swept(op, days, hours, dry_run, fault, stats) ==
    [op |-> op, job |-> None, code |-> 200,
     success_retention_days |-> days, failed_retention_hours |-> hours,
     dry_run |-> dry_run, fault |-> fault, stats |-> stats]

\* POST /api/cleanup: job_manager.cleanup_old_jobs, the stats in the answer
cleanup_endpoint ==
    \E days \in SuccessRetentionDays, hours \in FailedRetentionHours,
       dry_run \in BOOLEAN, fault \in PurgeFaults :
      \E so \in Orders(Eligible(jobs, COMPLETED, SuccessCutoff(now, days))),
         fo \in Orders(Eligible(jobs, FAILED, FailedCutoff(now, hours))) :
        LET r == cleanup_old_jobs(jobs, uploads, results, so, fo, dry_run,
                                  fault)
        IN  /\ jobs' = r.jobs
            /\ uploads' = r.uploads
            /\ results' = r.results
            /\ resp' = Swept("cleanup_old_jobs", days, hours, dry_run, fault,
                             r.stats)
            /\ UNCHANGED <<zips, temps, wm_active, jm_active, docker_client,
                           cluster, unit, task, loop, now, cancelled>>

\* python cleanup_jobs.py: get_jobs_for_cleanup, then run_cleanup
cleanup_script ==
    \E days \in SuccessRetentionDays, hours \in FailedRetentionHours,
       dry_run \in BOOLEAN, fault \in PurgeFaults :
      \E so \in OrdersByAge(jobs, Eligible(jobs, COMPLETED,
                                           SuccessCutoff(now, days))),
         fo \in OrdersByAge(jobs, Eligible(jobs, FAILED,
                                           FailedCutoff(now, hours))) :
        LET r == run_cleanup(jobs, uploads, results, so, fo, dry_run, fault)
        IN  /\ jobs' = r.jobs
            /\ uploads' = r.uploads
            /\ results' = r.results
            /\ resp' = Swept("run_cleanup", days, hours, dry_run, fault,
                             r.stats)
            /\ UNCHANGED <<zips, temps, wm_active, jm_active, docker_client,
                           cluster, unit, task, loop, now, cancelled>>

\* the rows a job the service has run can be left as, seen at time t
SweepRows(t) ==
    {NewRow,
     [status |-> RUNNING, progress |-> DemPct, error_message |-> NULL,
      started_at |-> 0, completed_at |-> NoTime]}
    \cup {[status |-> COMPLETED, progress |-> DoneProgress,
           error_message |-> NULL, started_at |-> 0, completed_at |-> c] :
          c \in {i \in Instants : i <= t}}
    \cup {[status |-> FAILED, progress |-> InitStartedPct,
           error_message |-> <<"Workflow failed with exit code", "1">>,
           started_at |-> 0, completed_at |-> c] :
          c \in {i \in Instants : i <= t}}

\* the directories a job in that row can have: the upload of every job, a
\* results directory once it ran (with output when it succeeded), a zip
\* when a COMPLETED job was downloaded
SweepDirs(row) ==
    IF row.status = PENDING THEN {NoDir}
    ELSE IF row.status = COMPLETED
    THEN {[exists |-> TRUE, files |-> {"out"}]}
    ELSE IF row.status = RUNNING
    THEN {[exists |-> TRUE, files |-> {}]}
    ELSE {NoDir, [exists |-> TRUE, files |-> {"log"}]}

\* the service at rest some days after it ran its jobs
SweepInit ==
    /\ now \in {t \in Instants : t >= 12 * (MaxHalfDays - 1)}
    /\ \E ids \in SUBSET JobIds : jobs \in [ids -> SweepRows(now)]
    /\ uploads = DOMAIN jobs
    /\ results \in [JobIds -> {NoDir, [exists |-> TRUE, files |-> {}],
                               [exists |-> TRUE, files |-> {"log"}],
                               [exists |-> TRUE, files |-> {"out"}]}]
    /\ \A j \in JobIds :
         results[j] \in IF j \in DOMAIN jobs THEN SweepDirs(jobs[j])
                        ELSE {NoDir}
    /\ zips \in SUBSET {j \in DOMAIN jobs : jobs[j].status = COMPLETED}
    /\ temps = {}
    /\ wm_active = [j \in JobIds |-> "none"]
    /\ jm_active = {}
    /\ docker_client = None
    /\ unit = [j \in JobIds |-> "none"]
    /\ task = [j \in JobIds |-> [NoTask EXCEPT !.pc = "unused"]]
    /\ loop = None
    /\ resp = NoResp
    /\ cancelled = {}
    /\ ClusterIdle

SweepNext == cleanup_endpoint \/ cleanup_script

SweepSpec == SweepInit /\ [][SweepNext]_vars

(***************************************************************************)
(* Cluster nodes: DistributedWorkflowManager as run by scripts/start-      *)
(* worker.py (a worker node and the work_queue_worker processes it owns)   *)
(* and scripts/start-master.py (the master's status loop).  The main       *)
(* thread and the monitor thread of each worker process are real threads:  *)
(* their steps interleave freely.                                          *)
(***************************************************************************)
\* WorkerConfig.reconnect_attempts, as set on the command line
ReconnectAttempts == {0, 1}

\* the return code of a worker process: by itself, or ended by SIGTERM
WorkerExitCodes == {0, 1}
Sigterm == 0 - 15

\* start_worker_node(): Popen, the process stored under its pid, its
\* monitor thread started
start_worker_node ==
    LET pid == node.started + 1
    IN  /\ node.started < MaxStarts
        /\ procs' = [procs EXCEPT ![pid] = [state |-> "running",
                                            code |-> NoCode]]
        /\ worker_processes' = worker_processes \cup {pid}
        /\ monitor' = [monitor EXCEPT ![pid] = "reading"]

\* start-worker.py main: worker.start_worker_node(), then the run loop
NodeStart ==
    /\ node.type = "worker" /\ node.pc = "init"
    /\ start_worker_node
    /\ node' = [node EXCEPT !.pc = "loop", !.started = @ + 1]
    /\ resp' = NoResp
    /\ UNCHANGED <<jobs, artifacts, wm_active, jm_active, docker_client,
                   unit, task, loop, now, cancelled>>

\* a work_queue_worker process ends by itself
WorkerExits(p) ==
    /\ procs[p].state = "running"
    /\ \E code \in WorkerExitCodes :
         procs' = [procs EXCEPT ![p] = [state |-> "exited", code |-> code]]
    /\ resp' = NoResp
    /\ UNCHANGED <<jobs, artifacts, wm_active, jm_active, docker_client,
                   unit, task, loop, now, cancelled, worker_processes,
                   monitor, node>>

\* "if return_code != 0 and self.worker_config.reconnect_attempts > 0"
Reconnects(code, attempts) == code # 0 /\ attempts > 0

\* _monitor_worker_process: stdout is at EOF, wait() returned, the pid is
\* removed from worker_processes; then the sleep before a reconnection
MonitorReap(p) ==
    /\ monitor[p] = "reading"
    /\ procs[p].state = "exited"
    /\ worker_processes' = worker_processes \ {p}
    /\ monitor' = [monitor EXCEPT ![p] =
                      IF Reconnects(procs[p].code, node.reconnect_attempts)
                      THEN "sleeping" ELSE "done"]
    /\ resp' = NoResp
    /\ UNCHANGED <<jobs, artifacts, wm_active, jm_active, docker_client,
                   unit, task, loop, now, cancelled, procs, node>>

\* _monitor_worker_process after time.sleep(reconnect_delay):
\* self.start_worker_node(), and the thread ends
MonitorRestart(p) ==
    /\ monitor[p] = "sleeping"
    /\ node.started < MaxStarts
    /\ LET pid == node.started + 1
       IN  /\ procs' = [procs EXCEPT ![pid] = [state |-> "running",
                                               code |-> NoCode]]
           /\ worker_processes' = worker_processes \cup {pid}
           /\ monitor' = [monitor EXCEPT ![p] = "done", ![pid] = "reading"]
    /\ node' = [node EXCEPT !.started = @ + 1, !.restarts = @ + 1]
    /\ resp' = NoResp
    /\ UNCHANGED <<jobs, artifacts, wm_active, jm_active, docker_client,
                   unit, task, loop, now, cancelled>>

\* start-worker.py run loop, every 30 s: get_cluster_status() of a worker
\* node, and start_worker_node() when it counts no worker process
NodePoll ==
    /\ node.type = "worker" /\ node.pc = "loop"
    /\ IF Cardinality(worker_processes) > 0
       THEN UNCHANGED <<worker_processes, procs, monitor, node>>
       ELSE /\ start_worker_node
            /\ node' = [node EXCEPT !.started = @ + 1]
    /\ resp' = [op |-> "get_cluster_status", job |-> None, code |-> 0,
                worker_processes |-> Cardinality(worker_processes)]
    /\ UNCHANGED <<jobs, artifacts, wm_active, jm_active, docker_client,
                   unit, task, loop, now, cancelled>>

\* stop_worker_nodes(): every process in the map is terminated (killed
\* after the grace period) and waited for, then the map is cleared
stop_worker_nodes(ps, owned) ==
    [p \in Pids |-> IF p \in owned /\ ps[p].state = "running"
                    THEN [state |-> "exited", code |-> Sigterm]
                    ELSE ps[p]]

\* start-worker.py: KeyboardInterrupt in the run loop, worker.stop_worker_nodes()
NodeStop ==
    /\ node.type = "worker" /\ node.pc = "loop"
    /\ procs' = stop_worker_nodes(procs, worker_processes)
    /\ worker_processes' = {}
    /\ node' = [node EXCEPT !.pc = "stopped"]
    /\ resp' = NoResp
    /\ UNCHANGED <<jobs, artifacts, wm_active, jm_active, docker_client,
                   unit, task, loop, now, cancelled, monitor>>

\* start-worker.py: "return 0" after the cleanup; the interpreter exits and
\* the daemon monitor threads end with it (the worker processes do not)
NodeExit ==
    /\ node.type = "worker" /\ node.pc = "stopped"
    /\ node' = [node EXCEPT !.pc = "exited"]
    /\ monitor' = [p \in Pids |-> IF monitor[p] = "none" THEN "none"
                                  ELSE "done"]
    /\ resp' = NoResp
    /\ UNCHANGED <<jobs, artifacts, wm_active, jm_active, docker_client,
                   unit, task, loop, now, cancelled, worker_processes, procs>>

\* how "work_queue_status -M <project>" may end
QueryOutcomes == {"ok", "nonzero", "timeout", "exception"}

\* get_cluster_status() of a master node: the parsed totals, or the
\* "unknown" object when the query raised, timed out or exited non-zero
get_cluster_status(outcome) ==
    IF outcome = "ok"
    THEN [node_type |-> "master", total_workers |-> 0, tasks_waiting |-> 0,
          tasks_running |-> 0]
    ELSE [node_type |-> "master", status |-> "unknown",
          error |-> "Unable to get cluster status"]

\* secrets.token_hex(16): the values it may return
Secrets == {"a3f1", "9c2e"}
\* the text of a password file an operator wrote, with or without a newline
Whitespace == {" ", "\n"}
PasswordFiles ==
    {NoFile} \cup {<<s>> : s \in Secrets} \cup {<<s, "\n">> : s \in Secrets}
\* --password on the command line of start-master.py
CliPasswords == {NoPassword, <<"cli">>}

\* str.strip(): leading and trailing whitespace removed
RECURSIVE lstrip(_)
lstrip(text) ==
    IF text # <<>> /\ Head(text) \in Whitespace THEN lstrip(Tail(text))
    ELSE text
RECURSIVE rstrip(_)
rstrip(text) ==
    IF text # <<>> /\ text[Len(text)] \in Whitespace
    THEN rstrip(SubSeq(text, 1, Len(text) - 1))
    ELSE text
strip(text) == rstrip(lstrip(text))

\* start_master_node that writes a fresh secret on every start
start_master_node_regenerate(password_file, token) ==
    [password_file |-> <<token>>, work_queue_password |-> <<token>>]

\* start_master_node(), the password part: a secret is generated and
\* written when the file does not exist, else the file is read and stripped
start_master_node(password_file, token) ==
    IF password_file = NoFile
    THEN [password_file |-> <<token>>, work_queue_password |-> <<token>>]
    ELSE [password_file |-> password_file,
          work_queue_password |-> strip(password_file)]

\* start-master.py main: master.start_master_node() returns True with the
\* daemon thread of _monitor_workers started
MasterStart ==
    /\ node.type = "master" /\ node.pc = "init"
    /\ \E token \in Secrets :
         LET m == start_master_node(node.password_file, token)
         IN  node' = [node EXCEPT !.pc = "loop",
                                  !.password_file = m.password_file,
                                  !.work_queue_password =
                                      m.work_queue_password,
                                  !.monitor_thread = TRUE,
                                  !.runs = @ + 1]
    /\ resp' = NoResp
    /\ UNCHANGED <<jobs, artifacts, wm_active, jm_active, docker_client,
                   unit, task, loop, now, cancelled, worker_processes, procs,
                   monitor>>

\* _monitor_workers, one turn of "while True": makeflow_process is None
\* (set in __init__, assigned nowhere else), so no query is made, and the
\* thread sleeps for heartbeat_interval.  The loop reads no stop flag.
MonitorWorkers ==
    /\ node.type = "master" /\ node.monitor_thread
    /\ resp' = [op |-> "_monitor_workers", job |-> None, code |-> 0,
                queried |-> FALSE]
    /\ UNCHANGED <<jobs, artifacts, wm_active, jm_active, docker_client,
                   unit, task, loop, now, cancelled, cluster>>

\* start-master.py run loop, every 30 s: status = get_cluster_status() and
\* the log line reading status['total_workers'], status['tasks_running'],
\* status['tasks_waiting']; a KeyError leaves main through
\* "except Exception: return 1"
MasterPoll ==
    /\ node.type = "master" /\ node.pc = "loop"
    /\ \E outcome \in QueryOutcomes :
         LET status == get_cluster_status(outcome)
         IN  /\ resp' = [op |-> "get_cluster_status", job |-> None,
                         code |-> 0, outcome |-> outcome, status |-> status]
             /\ node' = [node EXCEPT !.pc =
                            IF {"total_workers", "tasks_running",
                                "tasks_waiting"} \subseteq DOMAIN status
                            THEN "loop" ELSE "failed"]
    /\ UNCHANGED <<jobs, artifacts, wm_active, jm_active, docker_client,
                   unit, task, loop, now, cancelled, worker_processes, procs,
                   monitor>>

\* start-master.py: KeyboardInterrupt in the run loop, stop_master_node():
\* makeflow_process is None, so nothing is terminated and nothing else is done
MasterStop ==
    /\ node.type = "master" /\ node.pc = "loop"
    /\ node' = [node EXCEPT !.pc = "stopped"]
    /\ resp' = NoResp
    /\ UNCHANGED <<jobs, artifacts, wm_active, jm_active, docker_client,
                   unit, task, loop, now, cancelled, worker_processes, procs,
                   monitor>>

\* main has returned and the interpreter exits: its daemon threads end
MasterExit ==
    /\ node.type = "master" /\ node.pc \in {"stopped", "failed"}
    /\ node' = [node EXCEPT !.pc = "exited", !.monitor_thread = FALSE]
    /\ resp' = NoResp
    /\ UNCHANGED <<jobs, artifacts, wm_active, jm_active, docker_client,
                   unit, task, loop, now, cancelled, worker_processes, procs,
                   monitor>>

\* the operator runs start-master.py again on the same host: a new
\* MasterConfig, the home directory as the last run left it
MasterRerun ==
    /\ node.type = "master" /\ node.pc = "exited"
    /\ node.runs < MaxRuns
    /\ \E cli \in CliPasswords :
         node' = [node EXCEPT !.pc = "init", !.work_queue_password = cli]
    /\ resp' = NoResp
    /\ UNCHANGED <<jobs, artifacts, wm_active, jm_active, docker_client,
                   unit, task, loop, now, cancelled, worker_processes, procs,
                   monitor>>

\* a node script has built its DistributedWorkflowManager: a worker node
\* about to start its first worker process, or a master node about to
\* call start_master_node()
ClusterInit ==
    /\ jobs = [k \in {} |-> NewRow]
    /\ uploads = {}
    /\ results = [j \in JobIds |-> NoDir]
    /\ zips = {}
    /\ temps = {}
    /\ wm_active = [j \in JobIds |-> "none"]
    /\ jm_active = {}
    /\ docker_client = None
    /\ unit = [j \in JobIds |-> "none"]
    /\ task = [j \in JobIds |-> [NoTask EXCEPT !.pc = "unused"]]
    /\ loop = None
    /\ now = 0
    /\ resp = NoResp
    /\ cancelled = {}
    /\ worker_processes = {}
    /\ procs = [p \in Pids |-> NoProc]
    /\ monitor = [p \in Pids |-> "none"]
    /\ \/ \E a \in ReconnectAttempts :
            node = [NoNode EXCEPT !.type = "worker", !.pc = "init",
                                  !.reconnect_attempts = a]
       \/ \E f \in PasswordFiles, cli \in CliPasswords :
            node = [NoNode EXCEPT !.type = "master", !.pc = "init",
                                  !.password_file = f,
                                  !.work_queue_password = cli]

ClusterNext ==
    \/ NodeStart
    \/ \E p \in Pids :
         \/ WorkerExits(p)
         \/ MonitorReap(p)
         \/ MonitorRestart(p)
    \/ NodePoll
    \/ NodeStop
    \/ NodeExit
    \/ MasterStart
    \/ MonitorWorkers
    \/ MasterPoll
    \/ MasterStop
    \/ MasterExit
    \/ MasterRerun

ClusterSpec == ClusterInit /\ [][ClusterNext]_vars

(***************************************************************************)
(* Properties.                                                             *)
(***************************************************************************)
Finished(j) == task[j].pc \in {"closing", "done"}

\* C1: the stored status of a job only changes PENDING -> RUNNING,
\* RUNNING -> COMPLETED or RUNNING -> FAILED.
C1_StatusTransitions ==
    [][\A j \in JobIds :
         (JobExists(jobs, j) /\ JobExists(jobs', j)
            /\ jobs'[j].status # jobs[j].status)
         => <<jobs[j].status, jobs'[j].status>>
              \in {<<PENDING, RUNNING>>, <<RUNNING, COMPLETED>>,
                   <<RUNNING, FAILED>>}]_vars

\* C2: once the stored status is COMPLETED or FAILED, a later write leaves
\* status, progress and error_message as they are.
C2_TerminalIsFinal ==
    [][\A j \in JobIds :
         (JobExists(jobs, j) /\ jobs[j].status \in Terminal
            /\ JobExists(jobs', j))
         => /\ jobs'[j].status = jobs[j].status
            /\ jobs'[j].progress = jobs[j].progress
            /\ jobs'[j].error_message = jobs[j].error_message]_vars

\* C3: after cancel returned success the job is FAILED with the cancellation
\* message in every later state (while its row exists).
C3_CancelledStaysFailed ==
    \A j \in cancelled :
        JobExists(jobs, j)
        => jobs[j].status = FAILED /\ jobs[j].error_message = CancelMsg

\* C4: when cancel returns success the job's execution unit is not running
\* and the active-handle map holds no entry for the job.
C4_CancelLeavesNoUnit ==
    (resp.op = "cancel" /\ resp.code = 200)
    => unit[resp.job] # "running" /\ wm_active[resp.job] = "none"

\* C5: cancel of a job that is not RUNNING, or of an unknown id, answers 400
\* resp. 404 and changes neither the table, nor the handle maps, nor a file.
C5_CancelRefused ==
    [][\A j \in JobIds :
         (resp'.op = "cancel" /\ resp'.job = j /\ StatusOf(jobs, j) # RUNNING)
         => /\ resp'.code = IF JobExists(jobs, j) THEN 400 ELSE 404
            /\ UNCHANGED <<jobs, wm_active, jm_active, artifacts>>]_vars

C5_Witness ==
    /\ resp = Resp("cancel", "j1", 400)
    /\ JobExists(jobs, "j1") /\ jobs["j1"].status = COMPLETED
    /\ results["j1"].exists /\ wm_active["j1"] = "process"

\* C6: a started supervision task whose stream has closed, or that met an
\* exception, ends with the job COMPLETED or FAILED; after an exception the
\* job is FAILED and error_message holds the exception text.
StreamOver(j) ==
    \/ task[j].pc = "stream" /\ task[j].gen \in {"wait", "sdk_wait", "ended"}
    \/ task[j].exc # ""

Settled(j) ==
    Finished(j) /\ (JobExists(jobs, j) => jobs[j].status \in Terminal)

HoldsText(msg, e) == \E i \in 1..Len(msg) : msg[i] = e

C6_NeverLeftRunning ==
    /\ \A j \in NewIds : StreamOver(j) ~> Settled(j)
    /\ [](\A j \in NewIds :
            (Finished(j) /\ task[j].exc # "" /\ JobExists(jobs, j))
            => /\ jobs[j].status = FAILED
               /\ HoldsText(jobs[j].error_message, task[j].exc))

C6_Witness ==
    /\ Finished("j1") /\ task["j1"].exc = "e" /\ JobExists(jobs, "j1")
    /\ jobs["j1"].error_message = ExecutionFailedMsg("e")

\* C7: a write of progress made while the job is RUNNING never lowers the
\* stored progress.
C7_ProgressMonotonic ==
    [][\A j \in JobIds :
         (JobExists(jobs, j) /\ JobExists(jobs', j)
            /\ jobs[j].status = RUNNING /\ jobs'[j].status = RUNNING)
         => jobs'[j].progress >= jobs[j].progress]_vars

\* C8: a COMPLETED job has progress exactly 100.
C8_CompletedIs100 ==
    \A j \in DOMAIN jobs :
        jobs[j].status = COMPLETED => jobs[j].progress = DoneProgress

C8_Witness ==
    /\ Finished("j1") /\ JobExists(jobs, "j1")
    /\ jobs["j1"].status = COMPLETED
    /\ task["j1"].last_progress # 10 * DoneProgress

\* C9: the stored progress is within 0..100.
C9_ProgressClamped ==
    \A j \in DOMAIN jobs : jobs[j].progress >= 0 /\ jobs[j].progress <= 100

\* C10: delete of a RUNNING job answers 400 and leaves the row, the results
\* directory, the zip and the upload as they are.
C10_DeleteRunningRefused ==
    [][\A j \in JobIds :
         (resp'.op = "delete" /\ resp'.job = j /\ StatusOf(jobs, j) = RUNNING)
         => /\ resp'.code = 400
            /\ UNCHANGED <<jobs, results, zips, uploads>>]_vars

C10_Witness ==
    /\ resp = Resp("delete", "j1", 400)
    /\ jobs["j1"].status = RUNNING
    /\ results["j1"].exists /\ "j1" \in uploads

\* C11: delete of a COMPLETED or FAILED job answers success, and after it the
\* row, the results directory, the zip, the scratch directory and the upload
\* of the job are gone.
C11_DeleteRemovesAll ==
    [][\A j \in JobIds :
         (resp'.op = "delete" /\ resp'.job = j /\ StatusOf(jobs, j) \in Terminal)
         => /\ resp'.code = 200
            /\ ~JobExists(jobs', j)
            /\ ~results'[j].exists
            /\ j \notin zips' /\ j \notin temps' /\ j \notin uploads']_vars

\* C12: delete of a PENDING job is refused like that of a RUNNING job and
\* leaves the row in place.
C12_DeletePendingRefused ==
    [][\A j \in JobIds :
         (resp'.op = "delete" /\ resp'.job = j /\ StatusOf(jobs, j) = PENDING)
         => /\ resp'.code = 400
            /\ JobExists(jobs', j) /\ jobs'[j] = jobs[j]]_vars

\* the task of j reads the next line of its progress stream in this step
Consuming(j) ==
    /\ task[j].pc = "stream" /\ task[j].queue # <<>>
    /\ task'[j] # task[j]

PercentLine(line) == line.tag = "PROGRESS:" /\ line.pct # NoPct

\* C13 as stated: of two consecutive identical "PROGRESS: p%" lines exactly
\* one leads to a call of update_status.
C13_DuplicateWritesOnce ==
    [][\A j \in NewIds :
         (Consuming(j) /\ PercentLine(Head(task[j].queue))
            /\ task[j].prev_pct = Head(task[j].queue).pct)
         => (task[j].prev_wrote # (resp' = StoreCall(j)))]_vars

\* C13, amended: a "PROGRESS: p%" line leads to a call of update_status
\* exactly when p differs from the percentage applied last (0 at the start);
\* so the second of two consecutive identical lines never leads to a call,
\* and the first does unless p was the percentage applied last.
C13_DuplicateSuppressed ==
    [][\A j \in NewIds :
         (Consuming(j) /\ PercentLine(Head(task[j].queue)))
         => LET p == Head(task[j].queue).pct
            IN  /\ (resp' = StoreCall(j)) <=> (p # task[j].last_progress)
                /\ task[j].prev_pct = p => resp' # StoreCall(j)]_vars

\* the SDK path read "Starting task 1/2" twice: 50.0% was written for the
\* first line and not for the second
C13_Witness ==
    /\ docker_client = "sdk"
    /\ task["j1"].nlines = 2 /\ task["j1"].queue = <<>>
    /\ task["j1"].prev_pct = 500 /\ ~task["j1"].prev_wrote
    /\ task["j1"].last_progress = 500
    /\ JobExists(jobs, "j1") /\ jobs["j1"].progress = 50

\* C14: a COMPLETED:, ERROR: or FAILED: line is the last line the task reads:
\* it leaves the stream at once, reads no line and makes no store write
\* afterwards, and after a COMPLETED: line the job is COMPLETED with 100.
C14_TerminalLineWins ==
    [][\A j \in NewIds :
         /\ (Consuming(j) /\ Head(task[j].queue).tag \in TerminalTags)
            => task'[j].pc = "final_check" /\ task'[j].queue = <<>>
         /\ task[j].prev_tag \in TerminalTags
            => /\ task'[j].prev_tag = task[j].prev_tag
               /\ task'[j].queue = <<>>
               /\ resp' # StoreCall(j)
         /\ (task'[j].prev_tag = "COMPLETED:" /\ JobExists(jobs', j))
            => /\ jobs'[j].status = COMPLETED
               /\ jobs'[j].progress = DoneProgress]_vars

\* the subprocess unit printed an error line and is still running with
\* output to come, and the task has ended on the ERROR: line
C14_Witness ==
    /\ Finished("j1") /\ task["j1"].prev_tag = "ERROR:"
    /\ unit["j1"] = "running" /\ task["j1"].nlines < MaxLines
    /\ task["j1"].gen = "read"
    /\ JobExists(jobs, "j1") /\ jobs["j1"].status = FAILED

\* C15: once the task has ended and the execution unit has exited with code
\* 0 without having printed a COMPLETED:, ERROR: or FAILED: marker of its
\* own, the job (not cancelled, no exception met) is COMPLETED with progress
\* 100.
C15_SuccessFallback ==
    \A j \in NewIds :
        (Finished(j) /\ task[j].exit_code = 0 /\ ~task[j].marker
           /\ ~(j \in cancelled) /\ task[j].exc = "" /\ JobExists(jobs, j))
        => jobs[j].status = COMPLETED /\ jobs[j].progress = DoneProgress

\* C16: once the task has ended and the execution unit has exited with a code
\* N other than 0, the job (not cancelled, no exception met) is FAILED; its
\* error_message holds N when the unit printed no ERROR: or FAILED: marker
\* of its own, and is the message of the marker line the task read otherwise.
C16_FailureByExitCode ==
    \A j \in NewIds :
        (Finished(j) /\ task[j].exit_code \notin {NoCode, 0}
           /\ ~(j \in cancelled) /\ task[j].exc = "" /\ JobExists(jobs, j))
        => /\ jobs[j].status = FAILED
           /\ IF task[j].marker
              THEN jobs[j].error_message = task[j].prev_text
              ELSE HoldsText(jobs[j].error_message,
                             CodeText(task[j].exit_code))

\* the engine's own availability check failed for the task of j
CheckFailed(j) == task[j].pc \in {"finally", "done"} /\ task[j].gen = "none"

\* C17: when the engine's availability check fails, no execution unit is
\* spawned and no handle stored, and the job is FAILED with the
\* backend-level message from then on (never COMPLETED).
C17_BackendUnavailable ==
    \A j \in NewIds :
        CheckFailed(j)
        => /\ unit[j] = "none" /\ wm_active[j] = "none"
           /\ task[j].exit_code = NoCode
           /\ JobExists(jobs, j)
              => /\ jobs[j].status = FAILED
                 /\ jobs[j].error_message = DockerUnavailableMsg

\* a Docker client exists, the check failed, and the job ended FAILED
C17_Witness ==
    /\ docker_client = "subprocess"
    /\ task["j1"].pc = "done" /\ CheckFailed("j1")
    /\ JobExists(jobs, "j1") /\ jobs["j1"].status = FAILED
    /\ jobs["j1"].error_message = DockerUnavailableMsg
    /\ ~results["j1"].exists


\* the generator of j is inside _execute_mock_workflow
InMock(j) == task[j].gen = "mock_sleep"

\* C18: the mock path is never entered for a job. (The code reads no
\* simulation-mode setting, so no run has one configured and every entry
\* into the mock path is an unselected one.)
C18_MockNeverSilent == \A j \in JobIds : ~InMock(j)


\* C19: once the supervision task of a job has finished and its generator
\* is closed, active_containers holds no handle for the job.
C19_HandleRemoved ==
    \A j \in JobIds : task[j].pc = "done" => wm_active[j] = "none"


\* C20: submission inserts the PENDING row before the task exists; until the
\* task's first step nothing is spawned and the row, while it exists, is
\* the PENDING one; the first step of the task is the store call that makes
\* the row RUNNING with progress 5, with no unit, handle or generator yet.
C20_FirstWriteRunning ==
    [][\A j \in NewIds :
         /\ (task[j].pc = "none" /\ task'[j].pc # "none")
            => /\ task'[j].pc = "created"
               /\ JobExists(jobs', j) /\ jobs'[j].status = PENDING
         /\ task[j].pc \in {"none", "created"}
            => /\ unit[j] = "none" /\ wm_active[j] = "none"
               /\ task[j].gen = "none" /\ task[j].queue = <<>>
               /\ JobExists(jobs, j) => jobs[j].status = PENDING
         /\ (task[j].pc \in {"none", "created"} /\ resp' = StoreCall(j))
            => task[j].pc = "created" /\ task'[j].pc = "check"
         /\ (task[j].pc = "created" /\ task'[j].pc # "created")
            => /\ resp' = StoreCall(j)
               /\ unit'[j] = "none" /\ task'[j].gen = "none"
               /\ JobExists(jobs, j)
                  => /\ jobs'[j].status = RUNNING
                     /\ jobs'[j].progress = StartProgress]_vars

\* the task has made its first store call and nothing else: the row is
\* RUNNING with progress 5, no generator and no unit exist yet
C20_Witness ==
    /\ task["j1"].pc = "check" /\ resp = StoreCall("j1")
    /\ JobExists(jobs, "j1") /\ jobs["j1"].status = RUNNING
    /\ jobs["j1"].progress = StartProgress
    /\ unit["j1"] = "none" /\ task["j1"].gen = "none"


LiveSweep == resp'.op \in {"cleanup_old_jobs", "run_cleanup"} /\ ~resp'.dry_run

\* the rows a retention run with the arguments of this step selects
SweptSuccessful ==
    Eligible(jobs, COMPLETED,
             SuccessCutoff(now, resp'.success_retention_days))
SweptFailed ==
    Eligible(jobs, FAILED, FailedCutoff(now, resp'.failed_retention_hours))

\* C22: a live retention run in which no purge raises removes the results
\* directory of every selected COMPLETED job and leaves its row and its
\* uploaded input as they were, in both implementations.
C22_SuccessKeepsRecordAndInput ==
    [][(LiveSweep /\ resp'.fault = None)
       => \A j \in SweptSuccessful :
            /\ ~results'[j].exists
            /\ JobExists(jobs', j) /\ jobs'[j] = jobs[j]
            /\ j \in uploads => j \in uploads']_vars


Untouched(j) ==
    /\ JobExists(jobs, j) <=> JobExists(jobs', j)
    /\ JobExists(jobs, j) => jobs'[j] = jobs[j]
    /\ results'[j] = results[j]
    /\ (j \in uploads) <=> (j \in uploads')
    /\ (j \in zips) <=> (j \in zips')

\* C24: a retention run touches neither row nor artifacts of a job that is
\* PENDING or RUNNING, of a COMPLETED job completed at or after now minus
\* the success retention, or of a FAILED job completed at or after now minus
\* the failure retention.
C24_SelectionByStatusAndAge ==
    [][resp'.op \in {"cleanup_old_jobs", "run_cleanup"}
       => \A j \in DOMAIN jobs :
            (\/ jobs[j].status \in {PENDING, RUNNING}
             \/ /\ jobs[j].status = COMPLETED
                /\ jobs[j].completed_at >=
                       SuccessCutoff(now, resp'.success_retention_days)
             \/ /\ jobs[j].status = FAILED
                /\ jobs[j].completed_at >=
                       FailedCutoff(now, resp'.failed_retention_hours))
            => Untouched(j)]_vars


\* what the live run of the implementation op reports from this state
LiveStats(op, days, hours) ==
    LET succ == Eligible(jobs, COMPLETED, SuccessCutoff(now, days))
        fail == Eligible(jobs, FAILED, FailedCutoff(now, hours))
    IN  IF op = "cleanup_old_jobs"
        THEN {cleanup_old_jobs(jobs, uploads, results, so, fo, FALSE,
                               None).stats :
                  so \in Orders(succ), fo \in Orders(fail)}
        ELSE {run_cleanup(jobs, uploads, results, so, fo, FALSE, None).stats :
                  so \in OrdersByAge(jobs, succ),
                  fo \in OrdersByAge(jobs, fail)}

\* C25: a dry run changes neither store nor artifacts and reports the
\* counts and the reclaimed size that the live run with the same arguments
\* reports from the same state.
C25_DryRunMatchesLive ==
    [][(resp'.op \in {"cleanup_old_jobs", "run_cleanup"} /\ resp'.dry_run)
       => /\ jobs' = jobs /\ uploads' = uploads /\ results' = results
          /\ zips' = zips
          /\ \A st \in LiveStats(resp'.op, resp'.success_retention_days,
                                 resp'.failed_retention_hours) :
               resp'.stats = st]_vars


\* C26: in a live retention run in which the purge of one selected job
\* raises, every other selected job has its results directory removed, a
\* FAILED one also its upload and its row, and the answer lists the error.
C26_PerJobFailureIsolated ==
    [][(/\ LiveSweep
        /\ resp'.fault \in SweptSuccessful \cup SweptFailed
        /\ results[resp'.fault].exists)
       => /\ resp'.stats.errors # <<>>
          /\ \A j \in (SweptSuccessful \cup SweptFailed) \ {resp'.fault} :
               /\ ~results'[j].exists
               /\ j \in SweptFailed
                  => j \notin uploads' /\ ~JobExists(jobs', j)]_vars


\* C27: the monitor threads of a worker node restart a worker process at
\* most reconnect_attempts times in total.
C27_BoundedReconnect == node.restarts <= node.reconnect_attempts

\* C28: after the first start, a worker process is started only when some
\* worker process of the node has exited with a non-zero code.
C28_NoReconnectAfterZeroExit ==
    [][(node.pc # "init" /\ node'.started > node.started)
       => \E p \in Pids : procs[p].state = "exited" /\ procs[p].code # 0]_vars

\* C29: once stop_worker_nodes has returned, no worker process this node
\* started is running and worker_processes is empty.
C29_StopAllStopsAll ==
    node.pc \in {"stopped", "exited"}
    => /\ worker_processes = {}
       /\ \A p \in Pids : procs[p].state # "running"

C40_OneLiveWorker ==
    Cardinality({p \in worker_processes : procs[p].state = "running"}) <= 1


\* what JobCleanupManager.run_cleanup, run live with the arguments of this
\* step, makes of the state this step started from
ScriptOutcomes ==
    {run_cleanup(jobs, uploads, results, so, fo, FALSE, None) :
        so \in OrdersByAge(jobs, SweptSuccessful),
        fo \in OrdersByAge(jobs, SweptFailed)}

\* C39: a live JobManager.cleanup_old_jobs in which nothing raises leaves
\* the rows, results directories and uploads that a live
\* JobCleanupManager.run_cleanup leaves from the same state, and reports
\* the same number of COMPLETED and of FAILED jobs processed.
C39_RetentionImplementationsAgree ==
    [][(LiveSweep /\ resp'.op = "cleanup_old_jobs" /\ resp'.fault = None)
       => \A r \in ScriptOutcomes :
            /\ r.jobs = jobs'
            /\ r.results = results'
            /\ r.uploads = uploads'
            /\ r.stats.successful_jobs_processed
                   = resp'.stats.successful_cleaned
            /\ r.stats.failed_jobs_processed = resp'.stats.failed_deleted]_vars


\* C38: a delete that does not answer success leaves the row of the job in
\* the table, and a delete that removes the row answers success.
C38_DeleteAllOrNothing ==
    [][\A j \in JobIds :
         (resp'.op = "delete" /\ resp'.job = j /\ JobExists(jobs, j))
         => (resp'.code = 200 <=> ~JobExists(jobs', j))]_vars


\* C37: from every state, cleanup_job_data(job_id, keep_results=False)
\* leaves no results directory for the job, and with keep_results=True it
\* leaves the results directories as they are.
C37_ExplicitRemovalWorks ==
    \A j \in JobIds :
        /\ ~cleanup_job_data(temps, results, j, FALSE).results[j].exists
        /\ cleanup_job_data(temps, results, j, TRUE).results = results


CountPayload(line) == line = CountLine(LoggedCount)

\* C36: a PROGRESS: line whose payload is an integer without a '%' sign
\* stores that integer as the progress of the job when it differs from the
\* last applied value.
C36_BareIntegerProgress ==
    [][\A j \in NewIds :
         (Consuming(j) /\ CountPayload(Head(task[j].queue))
            /\ JobExists(jobs, j)
            /\ task[j].last_progress # 10 * LoggedCount)
         => /\ resp' = StoreCall(j)
            /\ jobs'[j].progress = LoggedCount]_vars


\* C35: the error_message stored for an ERROR: or FAILED: line is the text
\* after the leading tag, whatever tokens that text holds.
C35_PayloadVerbatim ==
    [][\A j \in NewIds :
         (Consuming(j) /\ Head(task[j].queue).tag \in {"ERROR:", "FAILED:"}
            /\ JobExists(jobs, j))
         => jobs'[j].error_message = Head(task[j].queue).text]_vars


\* C34: in every state the error_message of a job is non-null exactly when
\* its status is FAILED.
C34_ErrorMessageIffFailed ==
    \A j \in JobIds :
        JobExists(jobs, j)
        => (jobs[j].error_message # NULL <=> jobs[j].status = FAILED)


\* a job whose cancellation stored FAILED with a message and which a later
\* write of its task moved to RUNNING or COMPLETED
C34_Witness ==
    \E j \in NewIds :
        /\ j \in cancelled /\ JobExists(jobs, j)
        /\ jobs[j].status \in {RUNNING, COMPLETED}
        /\ jobs[j].error_message = NULL


\* C33: started_at and completed_at are each written at most once: a step
\* never changes a started_at or completed_at that is already set, and
\* started_at is set only by a write of RUNNING, completed_at only by a
\* write of COMPLETED or FAILED.
C33_TimestampsFirstWriteWins ==
    [][\A j \in JobIds :
         (JobExists(jobs, j) /\ JobExists(jobs', j))
         => /\ jobs[j].started_at # NoTime
                 => jobs'[j].started_at = jobs[j].started_at
            /\ jobs[j].completed_at # NoTime
                 => jobs'[j].completed_at = jobs[j].completed_at
            /\ jobs'[j].started_at # jobs[j].started_at
                 => jobs'[j].status = RUNNING
            /\ jobs'[j].completed_at # jobs[j].completed_at
                 => jobs'[j].status \in Terminal]_vars


\* C31: once stop_master_node has returned, no step is a turn of the
\* monitoring loop that start_master_node started. (The master owns no
\* long-lived subprocess: makeflow_process is None in every state.)
C31_StopEndsMonitoring ==
    [][(node.type = "master" /\ node.pc = "stopped")
       => resp'.op # "_monitor_workers"]_vars

=============================================================================
